---- MODULE Spec2Model ----
EXTENDS Integers, Sequences, FiniteSets, TLC

(***************************************************************************)
(* Model of the agent chat core      : the Conversation Store              *)
(* (ConversationManager), the agent tool-calling loop (BaseAgent.chat),    *)
(* the orchestrator (OrchestratorAgent.chat / execute_function) and the    *)
(* two request handlers of app/api/chat.py.                                *)
(***************************************************************************)

\* ---------------------------------------------------------------- constants
\* Program constants.
MaxHistory == 20
timeout_minutes == 30
DefaultMaxIterations == 5
FallbackText == 0

\* Bounds of the model.
MaxRequests == 2
MaxTicks == 1
StoreToolBudget == 5
AgentToolBudget == 6
MaxExtraCalls == 1
MaxIterArg == 1

\* the callers, the request slots (requests in flight at once) and the list objects
Users == {1, 2}
Req == {1, 2}
ListIds == 1..(Cardinality(Users) + Cardinality(Req) + 1)

VARIABLES
    clock,          \* datetime.now(), in minutes
    conversations,  \* ConversationManager.conversations: user -> session
    heap,           \* the Python list objects: list id -> sequence of messages
    req,            \* per request slot: the HTTP handler's position and outputs
    orch,           \* per request slot: its OrchestratorAgent and chat() frame
    sub,            \* per request slot: its two specialized agents
    loop,           \* request whose synchronous handler occupies the event loop (0: none)
    domain,         \* the rows of the database session the ChatDataService reads
    env             \* what is left of the environment's inputs (requests, ticks, and per request: ToolCalls, ToolCalls beyond the first of a response)

vars == <<clock, conversations, heap, req, orch, sub, loop, domain, env>>

\* ---------------------------------------------------------------- values
Min(S) == CHOOSE x \in S : \A y \in S : x <= y

\* str values are integers: 0 is the fixed fallback string, QuestionText(n)
\* the message of the n-th request, the others are texts the completion
\* service writes.
QuestionText(n) == n
AnswerText(n) == 10 + n
OldText == AnswerText(0)
QueryText(id) == 30 + id
SubAnswerText(id) == 60 + id

\* A message content: a str (k = "text"), None (k = "none"), the system
\* prompt of agent s, or json.dumps of a function response.
Text(n) == [k |-> "text", s |-> "", n |-> n]
NoneContent == [k |-> "none", s |-> "", n |-> 0]
SystemContent(name) == [k |-> "system", s |-> name, n |-> 0]
AgentPayload(name, response) == [k |-> "agent", s |-> name, n |-> response]
ErrorPayload(fname) == [k |-> "error", s |-> fname, n |-> 0]
DataPayload(fname) == [k |-> "data", s |-> fname, n |-> 0]

\* {"role": role, "content": content}
Message(role, content) ==
    [role |-> role, content |-> content, tool_calls |-> <<>>, tool_call_id |-> 0]

\* the assistant message that carries the raw ToolCall list
AssistantToolCalls(content, calls) ==
    [role |-> "assistant", content |-> content, tool_calls |-> calls, tool_call_id |-> 0]

\* {"role": "tool", "tool_call_id": id, "content": json.dumps(response)}
ToolMessage(id, payload) ==
    [role |-> "tool", content |-> payload, tool_calls |-> <<>>, tool_call_id |-> id]

\* lst[-n:]
LastN(s, n) == IF Len(s) <= n THEN s ELSE SubSeq(s, Len(s) - n + 1, Len(s))

\* ---------------------------------------------------------------- the heap
NoSession == [messages |-> 0, last_updated |-> 0 - 1]

HasSession(c, u) == c[u].messages # 0

\* the list objects something still refers to
Refs(c, o) ==
    ({c[u].messages : u \in Users} \cup {o[r].hist : r \in Req}) \ {0}

\* a list object nothing refers to: where a new list is created
FreeList(c, o) == Min(ListIds \ Refs(c, o))

\* unreferenced lists are collected
Collect(h, c, o) == [i \in ListIds |-> IF i \in Refs(c, o) THEN h[i] ELSE <<>>]

\* ---------------------------------------------------------------- ConversationManager
\* a cleanup that lets a session live one minute longer
CleanupOld_OneMinuteLate(c, now) ==
    [u \in Users |->
        IF HasSession(c, u) /\ c[u].last_updated < now - timeout_minutes - 1
        THEN NoSession ELSE c[u]]

\* _cleanup_old_conversations: delete every session with last_updated < now - timeout
CleanupOld(c, now) ==
    [u \in Users |->
        IF HasSession(c, u) /\ c[u].last_updated < now - timeout_minutes
        THEN NoSession ELSE c[u]]

\* get_history: the cleanup, then the session's own list object, or a new empty list
GetHistory(c, h, o, u, now) ==
    LET c1 == CleanupOld(c, now)
        free == FreeList(c, o)
    IN IF HasSession(c1, u)
       THEN [c |-> c1, h |-> h, list |-> c1[u].messages]
       ELSE [c |-> c1, h |-> [h EXCEPT ![free] = <<>>], list |-> free]

\* a cut that keeps the oldest 20 messages instead
Truncate_KeepsOldest(msgs) == SubSeq(msgs, 1, MaxHistory)

\* the cut to the last 20 messages (a slice: a new list object)
Truncate(msgs) == LastN(msgs, MaxHistory)

\* the first statements of add_message: create the session if absent, append
\* to its list, stamp it
AppendMessage(c, h, o, u, role, content, now) ==
    LET fresh == ~HasSession(c, u)
        id == IF fresh THEN FreeList(c, o) ELSE c[u].messages
        h0 == IF fresh THEN [h EXCEPT ![id] = <<>>] ELSE h
    IN [c |-> [c EXCEPT ![u] = [messages |-> id, last_updated |-> now]],
        h |-> [h0 EXCEPT ![id] = Append(h0[id], Message(role, content))]]

\* the last statement of add_message: a list that holds more than 20 messages
\* by now is replaced by a new list of its last 20
KeepLast20(c, h, o, u) ==
    LET id == c[u].messages
        id2 == Min(ListIds \ Refs(c, o))
    IN IF Len(h[id]) > MaxHistory
       THEN [c |-> [c EXCEPT ![u].messages = id2],
             h |-> [h EXCEPT ![id2] = Truncate(h[id])]]
       ELSE [c |-> c, h |-> h]

\* add_message when no other thread runs between its statements
AddMessage(c, h, o, u, role, content, now) ==
    LET a == AppendMessage(c, h, o, u, role, content, now)
    IN KeepLast20(a.c, a.h, o, u)

\* a clear that drops every caller's session
ClearHistory_Everyone(c, u) == [v \in Users |-> NoSession]

\* a clear that leaves the session where it is
ClearHistory_Forgets(c, u) == c

\* clear_history
ClearHistory(c, u) == IF HasSession(c, u) THEN [c EXCEPT ![u] = NoSession] ELSE c

\* ---------------------------------------------------------------- agents
SubAgents == {"SQL Analyst", "Financial Advisor"}

\* the capability registries (the names execute_function dispatches on)
SqlFunctions ==
    {"get_database_schema", "get_user_profile", "get_current_income_sources",
     "get_spending_summary", "get_category_breakdown", "get_subcategory_breakdown",
     "get_account_summary", "get_monthly_trends", "get_savings_summary",
     "get_income_summary", "get_expense_templates"}

AdvisorFunctions ==
    {"get_user_profile", "get_current_income_sources", "get_financial_health_metrics",
     "get_category_breakdown", "get_monthly_trends", "get_savings_summary",
     "get_income_summary", "get_expense_templates", "get_spending_summary"}

Registered(agent) == IF agent = "SQL Analyst" THEN SqlFunctions ELSE AdvisorFunctions

\* the stored domain data (expenses, categories, accounts, incomes, savings) as row ids
Rows == {1, 2}

\* a data capability that also deletes what it read
Query_Deletes(fname, rows) == [payload |-> DataPayload(fname), rows |-> {}]

\* a ChatDataService method: self.db.query(...) only, so the rows it leaves
\* are the rows it found
Query(fname, rows) == [payload |-> DataPayload(fname), rows |-> rows]

\* the agent a delegation capability runs ("" when the name is no capability)
DelegateOf(fname) ==
    IF fname = "consult_sql_analyst" THEN "SQL Analyst"
    ELSE IF fname = "consult_financial_advisor" THEN "Financial Advisor"
    ELSE ""

\* a list that keeps every occurrence of a name
ListSet_KeepsAll(names) ==
    [a \in SubAgents |-> Cardinality({i \in DOMAIN names : names[i] = a})]

\* list(set(names)): each name that occurs, once. The order of the list is that
\* of a Python set, so the list is kept as the number of times it holds each name.
ListSet(names) ==
    [a \in SubAgents |-> IF \E i \in DOMAIN names : names[i] = a THEN 1 ELSE 0]

NoResult == [kind |-> "none", response |-> 0, agents_consulted |-> ListSet(<<>>),
             agent_timeline |-> <<>>, iterations |-> 0]

\* a timeline entry that numbers the delegations instead
TimelineEntry_RunningCount(o, agent) ==
    [agent |-> agent, iteration |-> Len(o.agent_timeline) + 1, status |-> "completed"]

\* the timeline entry of a delegation that returned
TimelineEntry(o, agent) ==
    [agent |-> agent, iteration |-> o.iteration + 1, status |-> "completed"]

NoOrch ==
    [pc |-> "none", hist |-> 0, user_message |-> 0, max_iterations |-> 0,
     messages |-> <<>>, iteration |-> 0, pending |-> <<>>,
     agents_consulted |-> <<>>, agent_timeline |-> <<>>, calls |-> 0,
     result |-> NoResult]

\* OrchestratorAgent(data_service) with conversation_history := list
NewOrch(list, text, maxIter) ==
    [NoOrch EXCEPT !.pc = "ready", !.hist = list, !.user_message = text,
                   !.max_iterations = maxIter]

IdleSub ==
    [active |-> "", pc |-> "idle", messages |-> <<>>, iteration |-> 0,
     pending |-> <<>>, calls |-> 0, response |-> 0]

NoSub == [hist |-> [a \in SubAgents |-> <<>>], run |-> IdleSub]

\* json.loads(tool_call.function.arguments) raises
LoadsRaises(tc) == tc.form = "malformed"

\* the ToolCalls of one response, with the ids the completion service gives them
WithIds(calls, base) ==
    [i \in 1..Len(calls) |->
        [id |-> base + i, name |-> calls[i].name, form |-> calls[i].form,
         fault |-> calls[i].fault]]

\* a final-text exit that counts the turn twice
DoneIterations_CountsTwice(o) == o.iteration + 2

\* "iterations" of the result on the final-text exit, and on the exhausted exit
DoneIterations(o) == o.iteration + 1

\* a fallback result that reports the turn it stopped before, counted from 0
ExhaustedIterations_FromZero(o) == o.max_iterations - 1

ExhaustedIterations(o) == o.max_iterations

\* the OrchestrationResult
Result(kind, response, o, iterations) ==
    [kind |-> kind, response |-> response,
     agents_consulted |-> ListSet(o.agents_consulted),
     agent_timeline |-> o.agent_timeline, iterations |-> iterations]

\* a loop that takes one turn more
OrchLoop_OneMore(o, i) ==
    IF i <= o.max_iterations
    THEN [o EXCEPT !.iteration = i, !.pc = "await", !.pending = <<>>]
    ELSE [o EXCEPT !.pc = "exhausted", !.pending = <<>>,
                   !.result = Result("exhausted", FallbackText, o, ExhaustedIterations(o))]

\* a loop whose exhaustion passes for a final text
OrchLoop_FallbackAsDone(o, i) ==
    IF i < o.max_iterations
    THEN [o EXCEPT !.iteration = i, !.pc = "await", !.pending = <<>>]
    ELSE [o EXCEPT !.pc = "done", !.pending = <<>>,
                   !.result = Result("done", FallbackText, o, ExhaustedIterations(o))]

\* the head of `for iteration in range(max_iterations)` with the loop variable
\* at i: another turn, or the exit to the fallback result
OrchLoop(o, i) ==
    IF i < o.max_iterations
    THEN [o EXCEPT !.iteration = i, !.pc = "await", !.pending = <<>>]
    ELSE [o EXCEPT !.pc = "exhausted", !.pending = <<>>,
                   !.result = Result("exhausted", FallbackText, o, ExhaustedIterations(o))]

\* a result put right behind the assistant message, ahead of the turn's earlier results
OrchToolDone_Stacks(o, tc, payload) ==
    LET at == CHOOSE i \in DOMAIN o.messages :
                 /\ o.messages[i].tool_calls # <<>>
                 /\ \A j \in (i + 1)..Len(o.messages) : o.messages[j].tool_calls = <<>>
        o1 == [o EXCEPT !.messages = SubSeq(@, 1, at) \o <<ToolMessage(tc.id, payload)>>
                                        \o SubSeq(@, at + 1, Len(@)),
                        !.pending = Tail(@)]
    IN IF o1.pending = <<>> THEN OrchLoop(o1, o.iteration + 1) ELSE [o1 EXCEPT !.pc = "exec"]

\* the end of one tool call of the orchestrator: the tool message, then the
\* next call of the turn or the next iteration
OrchToolDone(o, tc, payload) ==
    LET o1 == [o EXCEPT !.messages = Append(@, ToolMessage(tc.id, payload)),
                        !.pending = Tail(@)]
    IN IF o1.pending = <<>> THEN OrchLoop(o1, o.iteration + 1) ELSE [o1 EXCEPT !.pc = "exec"]

\* a specialized agent whose exhaustion is an error
SubLoop_ExhaustionRaises(s, i) ==
    IF i < DefaultMaxIterations
    THEN [s EXCEPT !.iteration = i, !.pc = "await", !.pending = <<>>]
    ELSE [s EXCEPT !.pc = "raised", !.pending = <<>>]

\* the same for BaseAgent.chat, whose bound is the default of 5
SubLoop(s, i) ==
    IF i < DefaultMaxIterations
    THEN [s EXCEPT !.iteration = i, !.pc = "await", !.pending = <<>>]
    ELSE [s EXCEPT !.pc = "exhausted", !.pending = <<>>, !.response = FallbackText]

\* an agent that goes to its next turn after the first result of a turn
SubToolDone_FirstOnly(s, tc, payload) ==
    LET s1 == [s EXCEPT !.messages = Append(@, ToolMessage(tc.id, payload)),
                        !.pending = <<>>]
    IN SubLoop(s1, s.iteration + 1)

SubToolDone(s, tc, payload) ==
    LET s1 == [s EXCEPT !.messages = Append(@, ToolMessage(tc.id, payload)),
                        !.pending = Tail(@)]
    IN IF s1.pending = <<>> THEN SubLoop(s1, s.iteration + 1) ELSE [s1 EXCEPT !.pc = "exec"]

\* a delegation whose turns go on counting where the orchestrator's stand
FirstTurn_Continues(o) == o.iteration + 1

\* the loop variable at which the chat(query) of a delegation starts: the
\* specialized agent's own range(max_iterations), whatever the orchestrator's
\* loop has used
FirstTurn(o) == 0

\* BaseAgent.clear_history of the orchestrator of a slot, or of one of its
\* specialized agents: conversation_history becomes a new empty list. No
\* handler, agent or service of the program calls it, so it is a step of no
\* specification.
BaseAgentClearHistory(r, agent) ==
    /\ orch[r].pc # "none"
    /\ IF agent \in SubAgents
       THEN /\ sub' = [sub EXCEPT ![r].hist[agent] = <<>>]
            /\ UNCHANGED <<orch, heap>>
       ELSE LET new == FreeList(conversations, orch) IN
            /\ orch' = [orch EXCEPT ![r].hist = new]
            /\ heap' = Collect([heap EXCEPT ![new] = <<>>], conversations, orch')
            /\ UNCHANGED sub
    /\ UNCHANGED <<clock, conversations, req, loop, env, domain>>

\* the completion service may still issue this ToolCall list
CanIssue(calls) == Len(calls) <= env.tools /\ Len(calls) - 1 <= env.extra

\* the environment after it did
Issue(calls) ==
    [env EXCEPT !.tools = @ - Len(calls), !.issued = @ + Len(calls),
                !.extra = @ - (Len(calls) - 1)]

\* self.add_message("user", user_message) of OrchestratorAgent.chat
OrchAddUser(r) ==
    /\ orch[r].pc = "ready"
    /\ heap' = [heap EXCEPT ![orch[r].hist] =
                    Append(@, Message("user", Text(orch[r].user_message)))]
    /\ orch' = [orch EXCEPT ![r].pc = "added"]
    /\ UNCHANGED <<clock, conversations, req, sub, loop, env, domain>>

\* messages = [system] + self.conversation_history, and the loop's first test
OrchSnapshot(r) ==
    /\ orch[r].pc = "added"
    /\ orch' = [orch EXCEPT ![r] =
                    OrchLoop([orch[r] EXCEPT !.messages =
                        <<Message("system", SystemContent("Orchestrator"))>> \o heap[orch[r].hist],
                        !.agents_consulted = <<>>, !.agent_timeline = <<>>], 0)]
    /\ UNCHANGED <<clock, conversations, heap, req, sub, loop, env, domain>>

\* one request to the completion service and the branch on its response
OrchModelTurn(r, resp) ==
    /\ orch[r].pc = "await"
    /\ LET o == [orch[r] EXCEPT !.calls = @ + 1] IN
       CASE resp.type = "raise" ->
              /\ orch' = [orch EXCEPT ![r] = [o EXCEPT !.pc = "raised"]]
              /\ UNCHANGED <<heap, env>>
         [] resp.type = "final" ->
              /\ heap' = [heap EXCEPT ![o.hist] =
                              Append(@, Message("assistant", Text(resp.text)))]
              /\ orch' = [orch EXCEPT ![r] =
                              [o EXCEPT !.pc = "done",
                                        !.result = Result("done", resp.text, o, DoneIterations(o))]]
              /\ UNCHANGED env
         [] resp.type = "tools" ->
              /\ CanIssue(resp.calls)
              /\ LET calls == WithIds(resp.calls, env.issued) IN
                 orch' = [orch EXCEPT ![r] =
                              [o EXCEPT !.pc = "exec", !.pending = calls,
                                        !.messages = Append(@, AssistantToolCalls(NoneContent, calls))]]
              /\ env' = Issue(resp.calls)
              /\ UNCHANGED heap
    /\ UNCHANGED <<clock, conversations, req, sub, loop, domain>>

\* execute_function of the orchestrator for the next ToolCall of the turn:
\* json.loads, arguments.get, then the dispatch on the name. A delegation
\* enters the specialized agent's chat(query) up to its first request.
OrchExecTool(r) ==
    /\ orch[r].pc = "exec"
    /\ LET o == orch[r]
           tc == Head(o.pending)
           agent == DelegateOf(tc.name)
       IN IF LoadsRaises(tc)
          THEN /\ orch' = [orch EXCEPT ![r].pc = "raised"]
               /\ UNCHANGED sub
          ELSE IF agent # ""
          THEN /\ orch' = [orch EXCEPT ![r].pc = "deleg"]
               /\ LET hist == Append(sub[r].hist[agent], Message("user", Text(QueryText(tc.id))))
                  IN sub' = [sub EXCEPT ![r].hist[agent] = hist,
                                        ![r].run = SubLoop([IdleSub EXCEPT
                                            !.active = agent,
                                            !.messages = <<Message("system", SystemContent(agent))>> \o hist],
                                            FirstTurn(o))]
          ELSE /\ orch' = [orch EXCEPT ![r] = OrchToolDone(o, tc, ErrorPayload(tc.name))]
               /\ UNCHANGED sub
    /\ UNCHANGED <<clock, conversations, heap, req, loop, env, domain>>

\* an agent that also keeps its tool-call messages in its conversation history
SubModelTurn_RecordsToolCalls(r, resp) ==
    /\ orch[r].pc = "deleg"
    /\ sub[r].run.pc = "await"
    /\ LET s == [sub[r].run EXCEPT !.calls = @ + 1] IN
       CASE resp.type = "raise" ->
              /\ sub' = [sub EXCEPT ![r].run = [s EXCEPT !.pc = "raised"]]
              /\ UNCHANGED env
         [] resp.type = "final" ->
              /\ sub' = [sub EXCEPT ![r].hist[s.active] =
                                        Append(@, Message("assistant", Text(resp.text))),
                                    ![r].run = [s EXCEPT !.pc = "done", !.response = resp.text]]
              /\ UNCHANGED env
         [] resp.type = "tools" ->
              /\ CanIssue(resp.calls)
              /\ LET calls == WithIds(resp.calls, env.issued) IN
                 sub' = [sub EXCEPT ![r].hist[s.active] =
                                       Append(@, AssistantToolCalls(NoneContent, calls)),
                                   ![r].run =
                             [s EXCEPT !.pc = "exec", !.pending = calls,
                                       !.messages = Append(@, AssistantToolCalls(NoneContent, calls))]]
              /\ env' = Issue(resp.calls)
    /\ UNCHANGED <<clock, conversations, heap, req, orch, loop, domain>>

\* one request of the specialized agent to the completion service (BaseAgent.chat)
SubModelTurn(r, resp) ==
    /\ orch[r].pc = "deleg"
    /\ sub[r].run.pc = "await"
    /\ LET s == [sub[r].run EXCEPT !.calls = @ + 1] IN
       CASE resp.type = "raise" ->
              /\ sub' = [sub EXCEPT ![r].run = [s EXCEPT !.pc = "raised"]]
              /\ UNCHANGED env
         [] resp.type = "final" ->
              /\ sub' = [sub EXCEPT ![r].hist[s.active] =
                                        Append(@, Message("assistant", Text(resp.text))),
                                    ![r].run = [s EXCEPT !.pc = "done", !.response = resp.text]]
              /\ UNCHANGED env
         [] resp.type = "tools" ->
              /\ CanIssue(resp.calls)
              /\ LET calls == WithIds(resp.calls, env.issued) IN
                 sub' = [sub EXCEPT ![r].run =
                             [s EXCEPT !.pc = "exec", !.pending = calls,
                                       !.messages = Append(@, AssistantToolCalls(NoneContent, calls))]]
              /\ env' = Issue(resp.calls)
    /\ UNCHANGED <<clock, conversations, heap, req, orch, loop, domain>>

\* execute_function of a specialized agent for the next ToolCall of its turn
SubExecTool(r) ==
    /\ orch[r].pc = "deleg"
    /\ sub[r].run.pc = "exec"
    /\ LET s == sub[r].run
           tc == Head(s.pending)
       IN IF LoadsRaises(tc)
          THEN sub' = [sub EXCEPT ![r].run.pc = "raised"]
          ELSE IF tc.name \in Registered(s.active)
          THEN IF tc.fault
               THEN sub' = [sub EXCEPT ![r].run.pc = "raised"]
               ELSE sub' = [sub EXCEPT ![r].run =
                               SubToolDone(s, tc, Query(tc.name, domain).payload)]
          ELSE sub' = [sub EXCEPT ![r].run = SubToolDone(s, tc, ErrorPayload(tc.name))]
    /\ LET tc == Head(sub[r].run.pending) IN
       domain' = IF ~LoadsRaises(tc) /\ tc.name \in Registered(sub[r].run.active) /\ ~tc.fault
                 THEN Query(tc.name, domain).rows
                 ELSE domain
    /\ UNCHANGED <<clock, conversations, heap, req, orch, loop, env>>

\* an orchestrator that builds its specialized agents anew after each delegation
OrchDelegReturn_NewAgents(r) ==
    /\ orch[r].pc = "deleg"
    /\ sub[r].run.pc \in {"done", "exhausted", "raised"}
    /\ LET o == orch[r]
           s == sub[r].run
           tc == Head(o.pending)
       IN IF s.pc = "raised"
          THEN orch' = [orch EXCEPT ![r].pc = "raised"]
          ELSE orch' = [orch EXCEPT ![r] =
                   OrchToolDone([o EXCEPT
                       !.agents_consulted = Append(@, s.active),
                       !.agent_timeline = Append(@, TimelineEntry(o, s.active))],
                       tc, AgentPayload(s.active, s.response))]
    /\ sub' = [sub EXCEPT ![r] = NoSub]
    /\ UNCHANGED <<clock, conversations, heap, req, loop, env, domain>>

\* the specialized agent's chat() has ended: the orchestrator wraps the text as
\* {agent, response}, records the consultation and appends the tool message;
\* an exception of the specialized agent passes through execute_function
OrchDelegReturn(r) ==
    /\ orch[r].pc = "deleg"
    /\ sub[r].run.pc \in {"done", "exhausted", "raised"}
    /\ LET o == orch[r]
           s == sub[r].run
           tc == Head(o.pending)
       IN IF s.pc = "raised"
          THEN orch' = [orch EXCEPT ![r].pc = "raised"]
          ELSE orch' = [orch EXCEPT ![r] =
                   OrchToolDone([o EXCEPT
                       !.agents_consulted = Append(@, s.active),
                       !.agent_timeline = Append(@, TimelineEntry(o, s.active))],
                       tc, AgentPayload(s.active, s.response))]
    /\ sub' = [sub EXCEPT ![r].run = IdleSub]
    /\ UNCHANGED <<clock, conversations, heap, req, loop, env, domain>>

\* ---------------------------------------------------------------- app/api/chat.py
IdleReq ==
    [pc |-> "idle", kind |-> "", user |-> 0, serial |-> 0, found |-> "", frames |-> <<>>,
     queue |-> <<>>, status |-> 0, body |-> NoResult]

Terminal(o) == o.pc \in {"done", "exhausted", "raised"}

\* a response frame that leaves out the iteration count
ResponseFrame_NoIterations(res) ==
    [type |-> "response",
     result |-> [res EXCEPT !.agent_timeline = <<>>, !.kind = "none", !.iterations = 1]]

\* a frame of the streaming protocol
Frame(type) == [type |-> type, result |-> NoResult]
ResponseFrame(res) == [type |-> "response", result |-> [res EXCEPT !.agent_timeline = <<>>, !.kind = "none"]]

\* what the handler's get_history call meets: no session of the caller, one
\* last stamped more than timeout_minutes ago, or a live one
Found(c, u, now) ==
    IF ~HasSession(c, u) THEN "none"
    ELSE IF now - c[u].last_updated > timeout_minutes THEN "stale"
    ELSE "live"

\* The start of either handler up to its first suspension: the data service and
\* the orchestrator are built (which reads the user's profile and may fail),
\* the stored history is loaded and becomes the orchestrator's own list.
\* /message goes on into orchestrator.chat on the event loop; /stream yields
\* the start frame.
Open(r, u, kind, fault) ==
    /\ loop = 0
    /\ req[r].pc \in {"idle", "closed"}
    /\ env.requests > 0
    /\ env' = [env EXCEPT !.requests = @ - 1, !.serial = @ + 1, !.issued = 0,
                          !.tools = env.budget.tools, !.extra = env.budget.extra]
    /\ LET n == env.serial + 1
           base == [IdleReq EXCEPT !.kind = kind, !.user = u, !.serial = n]
           loaded == [base EXCEPT !.found = Found(conversations, u, clock)]
           o0 == [orch EXCEPT ![r] = NoOrch]
           g == GetHistory(conversations, heap, o0, u, clock)
           built == NewOrch(g.list, QuestionText(n), DefaultMaxIterations)
       IN IF fault
          THEN /\ req' = [req EXCEPT ![r] =
                    IF kind = "sync"
                    THEN [base EXCEPT !.pc = "closed", !.status = 500]
                    ELSE [base EXCEPT !.pc = "closed", !.frames = <<Frame("error")>>]]
               /\ orch' = o0
               /\ heap' = Collect(heap, conversations, o0)
               /\ UNCHANGED <<conversations, loop>>
          ELSE /\ conversations' = g.c
               /\ orch' = [o0 EXCEPT ![r] =
                    IF kind = "sync" THEN built ELSE [built EXCEPT !.pc = "built"]]
               /\ heap' = Collect(g.h, g.c, orch')
               /\ req' = [req EXCEPT ![r] =
                    IF kind = "sync"
                    THEN [loaded EXCEPT !.pc = "running"]
                    ELSE [loaded EXCEPT !.pc = "started", !.frames = <<Frame("start")>>]]
               /\ loop' = IF kind = "sync" THEN r ELSE 0
    /\ sub' = [sub EXCEPT ![r] = NoSub]
    /\ domain' = IF fault THEN domain ELSE Query("get_user_profile", domain).rows
    /\ UNCHANGED clock

\* executor.submit(orchestrator.chat, request.message)
Submit(r) ==
    /\ loop = 0
    /\ req[r].pc = "started"
    /\ req' = [req EXCEPT ![r].pc = "running"]
    /\ orch' = [orch EXCEPT ![r].pc = "ready"]
    /\ UNCHANGED <<clock, conversations, heap, sub, loop, env, domain>>

\* one round of `while not future.done()`: forward a queued event, or sleep
StreamPoll(r) ==
    /\ loop = 0
    /\ req[r].kind = "stream"
    /\ req[r].pc = "running"
    /\ ~Terminal(orch[r])
    /\ IF req[r].queue # <<>>
       THEN req' = [req EXCEPT ![r].frames = Append(@, Head(req[r].queue)),
                               ![r].queue = Tail(@)]
       ELSE UNCHANGED req
    /\ UNCHANGED <<clock, conversations, heap, orch, sub, loop, env, domain>>

\* chat() has returned a result: (the stream forwards what is left in the
\* queue, then) conversation_manager.add_message(user_id, "user", message) up
\* to its stamp. No other handler runs on the event loop before the handler
\* has made both add_message calls; worker threads of other streams do run.
SaveUser(r) ==
    /\ loop = IF req[r].kind = "sync" THEN r ELSE 0
    /\ req[r].pc = "running"
    /\ orch[r].pc \in {"done", "exhausted"}
    /\ LET a == AppendMessage(conversations, heap, orch, req[r].user, "user",
                              Text(orch[r].user_message), clock)
       IN /\ conversations' = a.c
          /\ heap' = Collect(a.h, a.c, orch)
    /\ req' = [req EXCEPT ![r].pc = "user_added",
                          ![r].frames = @ \o req[r].queue,
                          ![r].queue = <<>>]
    /\ loop' = r
    /\ UNCHANGED <<clock, orch, sub, env, domain>>

\* conversation_manager.add_message(user_id, "assistant", result["response"])
\* up to its stamp
SaveAssistant(r) ==
    /\ loop = r
    /\ req[r].pc = "saving"
    /\ LET a == AppendMessage(conversations, heap, orch, req[r].user, "assistant",
                              Text(orch[r].result.response), clock)
       IN /\ conversations' = a.c
          /\ heap' = Collect(a.h, a.c, orch)
    /\ req' = [req EXCEPT ![r].pc = "assistant_added"]
    /\ UNCHANGED <<clock, orch, sub, loop, env, domain>>

\* the length test and the slice that end an add_message; after the one for
\* the assistant message the handler returns the ChatResponse, or yields the
\* response frame
SaveCut(r) ==
    /\ loop = r
    /\ req[r].pc \in {"user_added", "assistant_added"}
    /\ LET k == KeepLast20(conversations, heap, orch, req[r].user) IN
       IF req[r].pc = "user_added"
       THEN /\ conversations' = k.c
            /\ heap' = Collect(k.h, k.c, orch)
            /\ req' = [req EXCEPT ![r].pc = "saving"]
            /\ UNCHANGED <<orch, loop>>
       ELSE /\ orch' = [orch EXCEPT ![r].hist = 0]
            /\ conversations' = k.c
            /\ heap' = Collect(k.h, k.c, orch')
            /\ IF req[r].kind = "sync"
               THEN req' = [req EXCEPT ![r].pc = "closed", ![r].status = 200,
                                       ![r].body = [orch[r].result EXCEPT !.agent_timeline = <<>>, !.kind = "none"]]
               ELSE req' = [req EXCEPT ![r].pc = "responded",
                                       ![r].frames = Append(@, ResponseFrame(orch[r].result))]
            /\ loop' = 0
    /\ UNCHANGED <<clock, sub, env, domain>>

\* the last frame of a stream
StreamDone(r) ==
    /\ loop = 0
    /\ req[r].pc = "responded"
    /\ req' = [req EXCEPT ![r].pc = "closed", ![r].frames = Append(@, Frame("done"))]
    /\ UNCHANGED <<clock, conversations, heap, orch, sub, loop, env, domain>>

\* a failure after which the stream still says "done"
Fail_ThenDone(r) ==
    /\ loop = IF req[r].kind = "sync" THEN r ELSE 0
    /\ req[r].pc = "running"
    /\ orch[r].pc = "raised"
    /\ orch' = [orch EXCEPT ![r].hist = 0]
    /\ heap' = Collect(heap, conversations, orch')
    /\ IF req[r].kind = "sync"
       THEN /\ req' = [req EXCEPT ![r].pc = "closed", ![r].status = 500]
            /\ loop' = 0
       ELSE /\ req' = [req EXCEPT ![r].pc = "closed",
                                  ![r].frames = @ \o <<Frame("error"), Frame("done")>>]
            /\ UNCHANGED loop
    /\ UNCHANGED <<clock, conversations, sub, env, domain>>

\* a failure that is answered like a result
Fail_Recovers(r) ==
    /\ loop = IF req[r].kind = "sync" THEN r ELSE 0
    /\ req[r].pc = "running"
    /\ orch[r].pc = "raised"
    /\ orch' = [orch EXCEPT ![r].hist = 0]
    /\ heap' = Collect(heap, conversations, orch')
    /\ IF req[r].kind = "sync"
       THEN /\ req' = [req EXCEPT ![r].pc = "closed", ![r].status = 200,
                                  ![r].body = [NoResult EXCEPT !.iterations = 1]]
            /\ loop' = 0
       ELSE /\ req' = [req EXCEPT ![r].pc = "closed",
                                  ![r].frames = Append(@, Frame("error"))]
            /\ UNCHANGED loop
    /\ UNCHANGED <<clock, conversations, sub, env, domain>>

\* chat() raised: `except Exception` turns it into HTTP 500, or an error frame
Fail(r) ==
    /\ loop = IF req[r].kind = "sync" THEN r ELSE 0
    /\ req[r].pc = "running"
    /\ orch[r].pc = "raised"
    /\ orch' = [orch EXCEPT ![r].hist = 0]
    /\ heap' = Collect(heap, conversations, orch')
    /\ IF req[r].kind = "sync"
       THEN /\ req' = [req EXCEPT ![r].pc = "closed", ![r].status = 500]
            /\ loop' = 0
       ELSE /\ req' = [req EXCEPT ![r].pc = "closed",
                                  ![r].frames = Append(@, Frame("error"))]
            /\ UNCHANGED loop
    /\ UNCHANGED <<clock, conversations, sub, env, domain>>

\* POST /clear
ClearConversation(u) ==
    /\ loop = 0
    /\ conversations' = ClearHistory(conversations, u)
    /\ heap' = Collect(heap, conversations', orch)
    /\ UNCHANGED <<clock, req, orch, sub, loop, env, domain>>

\* the next step of some handler reads datetime.now(): get_history at the
\* start of a request, the first add_message after chat() has returned, the
\* second add_message after the first
ReadsClock ==
    \/ loop = 0 /\ env.requests > 0 /\ \E r \in Req : req[r].pc \in {"idle", "closed"}
    \/ \E r \in Req : req[r].pc = "running" /\ orch[r].pc \in {"done", "exhausted"}
    \/ \E r \in Req : req[r].pc = "saving"

\* time passes (the steps in between do not read the clock)
Tick(d) ==
    /\ env.ticks > 0
    /\ ReadsClock
    /\ clock' = clock + d
    /\ env' = [env EXCEPT !.ticks = @ - 1]
    /\ UNCHANGED <<conversations, heap, req, orch, sub, loop, domain>>

\* ---------------------------------------------------------------- inputs
Call(name, form, fault) == [name |-> name, form |-> form, fault |-> fault]

\* the non-empty lists of at most n ToolCalls over S
CallLists(S, n) == UNION {[1..k -> S] : k \in 1..n}

Final(text) == [type |-> "final", text |-> text, calls |-> <<>>]
Raise == [type |-> "raise", text |-> 0, calls |-> <<>>]
Tools(calls) == [type |-> "tools", text |-> 0, calls |-> calls]

\* what the completion service may ask the orchestrator to call: a delegation,
\* a name that is no capability, and arguments that are no JSON
OrchCalls ==
    {Call("consult_sql_analyst", "object", FALSE),
     Call("consult_market_data", "object", FALSE),
     Call("consult_market_data", "malformed", FALSE)}

\* what it may ask a specialized agent to call
SubCalls ==
    {Call("get_database_schema", "object", FALSE),
     Call("delete_expense", "object", FALSE),
     Call("get_database_schema", "object", TRUE),
     Call("get_user_profile", "malformed", FALSE)}

OrchResponses(r, calls, n) ==
    {Final(AnswerText(req[r].serial)), Raise} \cup {Tools(l) : l \in CallLists(calls, n)}

\* the id of the ToolCall the orchestrator is executing (0: none)
CurrentCall(r) == IF orch[r].pending = <<>> THEN 0 ELSE Head(orch[r].pending).id

SubResponses(r, calls, n) ==
    {Final(SubAnswerText(CurrentCall(r))), Raise}
        \cup {Tools(l) : l \in CallLists(calls, n)}

\* ---------------------------------------------------------------- specifications
\* a stored history of k earlier messages, ending with an assistant message
OldHistory(k) ==
    [i \in 1..k |-> Message(IF (k - i) % 2 = 0 THEN "assistant" ELSE "user", Text(OldText))]

InitLens == {0, MaxHistory - 1}

Init ==
    /\ clock = 0
    /\ \E len \in [Users -> InitLens] :
        /\ conversations = [u \in Users |->
                IF len[u] = 0 THEN NoSession ELSE [messages |-> u, last_updated |-> 0]]
        /\ heap = [i \in ListIds |-> IF i \in Users THEN OldHistory(len[i]) ELSE <<>>]
    /\ req = [r \in Req |-> IdleReq]
    /\ orch = [r \in Req |-> NoOrch]
    /\ sub = [r \in Req |-> NoSub]
    /\ loop = 0
    /\ domain = Rows
    /\ env = [requests |-> MaxRequests, ticks |-> MaxTicks, tools |-> 0, extra |-> 0,
              serial |-> 0, issued |-> 0, budget |-> [tools |-> StoreToolBudget, extra |-> 0]]

\* Under Spec the completion service asks the orchestrator for one capability
\* at a time, and for none that delegates.
StoreOrchCalls == {Call("consult_market_data", "object", FALSE)}

\* Under Spec one request is in flight at a time.
OneAtATime == {1}

Next ==
    \/ \E r \in OneAtATime, u \in Users, kind \in {"sync", "stream"}, fault \in BOOLEAN :
          Open(r, u, kind, fault)
    \/ \E r \in OneAtATime : Submit(r)
    \/ \E r \in OneAtATime : StreamPoll(r)
    \/ \E r \in OneAtATime : OrchAddUser(r)
    \/ \E r \in OneAtATime : OrchSnapshot(r)
    \/ \E r \in OneAtATime : \E resp \in OrchResponses(r, StoreOrchCalls, 1) : OrchModelTurn(r, resp)
    \/ \E r \in OneAtATime : OrchExecTool(r)
    \/ \E r \in OneAtATime : SaveUser(r)
    \/ \E r \in OneAtATime : SaveAssistant(r)
    \/ \E r \in OneAtATime : SaveCut(r)
    \/ \E r \in OneAtATime : StreamDone(r)
    \/ \E r \in OneAtATime : Fail(r)
    \/ \E u \in Users : ClearConversation(u)
    \/ \E d \in {timeout_minutes, timeout_minutes + 1} : Tick(d)

Spec == Init /\ [][Next]_vars

\* One invocation of OrchestratorAgent.chat(user_message, max_iterations) on a
\* new orchestrator, for max_iterations up to MaxIterArg and for the default.
InitAgent ==
    /\ clock = 0
    /\ conversations = [u \in Users |-> NoSession]
    /\ heap = [i \in ListIds |-> <<>>]
    /\ req = [r \in Req |-> IF r = 1 THEN [IdleReq EXCEPT !.pc = "direct", !.serial = 1] ELSE IdleReq]
    /\ \E k \in (0..MaxIterArg) \cup {DefaultMaxIterations} :
         orch = [r \in Req |-> IF r = 1 THEN NewOrch(1, QuestionText(1), k) ELSE NoOrch]
    /\ sub = [r \in Req |-> NoSub]
    /\ loop = 0
    /\ domain = Rows
    /\ env = [requests |-> 0, ticks |-> 0, tools |-> AgentToolBudget, extra |-> MaxExtraCalls,
              serial |-> 1, issued |-> 0,
              budget |-> [tools |-> AgentToolBudget, extra |-> MaxExtraCalls]]

NextAgent ==
    \/ OrchAddUser(1)
    \/ OrchSnapshot(1)
    \/ \E resp \in OrchResponses(1, OrchCalls, 1 + env.extra) : OrchModelTurn(1, resp)
    \/ OrchExecTool(1)
    \/ \E resp \in SubResponses(1, SubCalls, 1 + env.extra) : SubModelTurn(1, resp)
    \/ SubExecTool(1)
    \/ OrchDelegReturn(1)

SpecAgent == InitAgent /\ [][NextAgent]_vars


\* One invocation of OrchestratorAgent.chat in which the completion service asks
\* the orchestrator for either delegation or for a name that is no capability,
\* and answers each specialized agent with its final text (or fails).
ConsultCalls ==
    {Call("consult_sql_analyst", "object", FALSE),
     Call("consult_financial_advisor", "object", FALSE),
     Call("consult_market_data", "object", FALSE)}

NoCalls == {}

NextConsult ==
    \/ OrchAddUser(1)
    \/ OrchSnapshot(1)
    \/ \E resp \in OrchResponses(1, ConsultCalls, 1 + env.extra) : OrchModelTurn(1, resp)
    \/ OrchExecTool(1)
    \/ \E resp \in SubResponses(1, NoCalls, 0) : SubModelTurn(1, resp)
    \/ OrchDelegReturn(1)

SpecConsult == InitAgent /\ [][NextConsult]_vars

\* One invocation of OrchestratorAgent.chat in which the completion service asks
\* the orchestrator for either delegation or for a name that is no capability,
\* and asks each specialized agent for a capability of the SQL Analyst alone,
\* one of the Financial Advisor alone, or a name neither has.
DataCalls ==
    {Call("get_database_schema", "object", FALSE),
     Call("get_financial_health_metrics", "object", FALSE),
     Call("delete_expense", "object", FALSE)}

NextData ==
    \/ OrchAddUser(1)
    \/ OrchSnapshot(1)
    \/ \E resp \in OrchResponses(1, ConsultCalls, 1) : OrchModelTurn(1, resp)
    \/ OrchExecTool(1)
    \/ \E resp \in SubResponses(1, DataCalls, 1) : SubModelTurn(1, resp)
    \/ SubExecTool(1)
    \/ OrchDelegReturn(1)

SpecData == InitAgent /\ [][NextData]_vars

\* One streamed request, for either caller, during which the orchestrator may
\* delegate to either specialized agent, one capability per turn.
InitStream ==
    /\ clock = 0
    /\ \E len \in [Users -> InitLens] :
        /\ conversations = [u \in Users |->
                IF len[u] = 0 THEN NoSession ELSE [messages |-> u, last_updated |-> 0]]
        /\ heap = [i \in ListIds |-> IF i \in Users THEN OldHistory(len[i]) ELSE <<>>]
    /\ req = [r \in Req |-> IdleReq]
    /\ orch = [r \in Req |-> NoOrch]
    /\ sub = [r \in Req |-> NoSub]
    /\ loop = 0
    /\ domain = Rows
    /\ env = [requests |-> 1, ticks |-> 0, tools |-> 0, extra |-> 0,
              serial |-> 0, issued |-> 0, budget |-> [tools |-> StoreToolBudget, extra |-> 0]]

NextStream ==
    \/ \E u \in Users, fault \in BOOLEAN : Open(1, u, "stream", fault)
    \/ Submit(1)
    \/ StreamPoll(1)
    \/ OrchAddUser(1)
    \/ OrchSnapshot(1)
    \/ \E resp \in OrchResponses(1, ConsultCalls, 1) : OrchModelTurn(1, resp)
    \/ OrchExecTool(1)
    \/ \E resp \in SubResponses(1, NoCalls, 0) : SubModelTurn(1, resp)
    \/ OrchDelegReturn(1)
    \/ SaveUser(1)
    \/ SaveAssistant(1)
    \/ SaveCut(1)
    \/ StreamDone(1)
    \/ Fail(1)

SpecStream == InitStream /\ [][NextStream]_vars

\* The two callers at once: request slot r serves caller r, the requests, the
\* clears and the clock interleave in every way the event loop and the worker
\* threads allow, and the completion service answers with text or fails.
\* The clock moves by steps that make a session stale.
NextPair ==
    \/ \E r \in Req, kind \in {"sync", "stream"}, fault \in BOOLEAN : Open(r, r, kind, fault)
    \/ \E r \in Req : Submit(r)
    \/ \E r \in Req : StreamPoll(r)
    \/ \E r \in Req : OrchAddUser(r)
    \/ \E r \in Req : OrchSnapshot(r)
    \/ \E r \in Req : \E resp \in OrchResponses(r, NoCalls, 0) : OrchModelTurn(r, resp)
    \/ \E r \in Req : SaveUser(r)
    \/ \E r \in Req : SaveAssistant(r)
    \/ \E r \in Req : SaveCut(r)
    \/ \E r \in Req : StreamDone(r)
    \/ \E r \in Req : Fail(r)
    \/ \E u \in Users : ClearConversation(u)
    \/ Tick(timeout_minutes + 1)

SpecPair == Init /\ [][NextPair]_vars

\* Streamed requests in both slots for any callers, the same caller included:
\* the handlers interleave on the event loop, the workers run in the thread
\* pool, and the completion service answers with text or fails.
NextSame ==
    \/ \E r \in Req, u \in Users : Open(r, u, "stream", FALSE)
    \/ \E r \in Req : Submit(r)
    \/ \E r \in Req : StreamPoll(r)
    \/ \E r \in Req : OrchAddUser(r)
    \/ \E r \in Req : OrchSnapshot(r)
    \/ \E r \in Req : \E resp \in OrchResponses(r, NoCalls, 0) : OrchModelTurn(r, resp)
    \/ \E r \in Req : SaveUser(r)
    \/ \E r \in Req : SaveAssistant(r)
    \/ \E r \in Req : SaveCut(r)
    \/ \E r \in Req : StreamDone(r)
    \/ \E r \in Req : Fail(r)

\* the stored histories the requests of SpecSame may meet: none, one that the
\* first append of a request fills to 20, and one that overflows only with
\* the appends of two requests
SameLens == {0, MaxHistory - 3, MaxHistory - 1}

InitSame ==
    /\ clock = 0
    /\ \E len \in [Users -> SameLens] :
        /\ conversations = [u \in Users |->
                IF len[u] = 0 THEN NoSession ELSE [messages |-> u, last_updated |-> 0]]
        /\ heap = [i \in ListIds |-> IF i \in Users THEN OldHistory(len[i]) ELSE <<>>]
    /\ req = [r \in Req |-> IdleReq]
    /\ orch = [r \in Req |-> NoOrch]
    /\ sub = [r \in Req |-> NoSub]
    /\ loop = 0
    /\ domain = Rows
    /\ env = [requests |-> MaxRequests, ticks |-> 0, tools |-> 0, extra |-> 0,
              serial |-> 0, issued |-> 0, budget |-> [tools |-> 0, extra |-> 0]]

SpecSame == InitSame /\ [][NextSame]_vars

\* ---------------------------------------------------------------- claims: Conversation Store
\* the message list the store holds for a caller
Stored(u) ==
    IF HasSession(conversations, u) THEN heap[conversations[u].messages] ELSE <<>>

\* C1: in every reachable state the store's message list of every caller holds
\* at most 20 messages.
C1_StoreAtMost20 == \A u \in Users : Len(Stored(u)) <= MaxHistory

\* the last (at most) 20 elements of full, in their order, stated by position
IsLast20(new, full) ==
    LET n == Len(full)
        k == IF n <= MaxHistory THEN n ELSE MaxHistory
    IN /\ Len(new) = k
       /\ \A i \in 1..k : new[i] = full[n - k + i]

\* the handler of this slot is inside an add_message: it has appended and
\* stamped, and has not yet tested the length
InAddMessage(r) == req[r].pc \in {"user_added", "assistant_added"}

\* C2: each add_message of the store leaves the session with exactly the last 20
\* elements of (the history before it, followed by the new message), in order:
\* the oldest are dropped first. An add_message of a handler appends its
\* message to the stored history (the step into "user_added", or into
\* "assistant_added"), returns with the last 20 of what is stored (the step out
\* of it), and between the two the stored history is what it appended to,
\* followed by its message.
C2_AppendKeepsLast20 ==
    [][\A r \in Req :
        /\ (req[r].pc = "running" /\ req'[r].pc = "user_added")
              => Stored(req[r].user)' =
                    Append(Stored(req[r].user), Message("user", Text(orch[r].user_message)))
        /\ (req[r].pc = "saving" /\ req'[r].pc = "assistant_added")
              => Stored(req[r].user)' =
                    Append(Stored(req[r].user), Message("assistant", Text(orch[r].result.response)))
        /\ (InAddMessage(r) /\ req'[r].pc = req[r].pc)
              => Stored(req[r].user)' = Stored(req[r].user)
        /\ (InAddMessage(r) /\ req'[r].pc # req[r].pc)
              => IsLast20(Stored(req[r].user)', Stored(req[r].user))
      ]_vars

\* the case where the code does as C2 says: an add_message that overflowed
\* with no other request of the caller in flight; the session holds 20
\* messages ending with the request's user message, in a new list, while the
\* list it was appended to (still the orchestrator's) holds more than 20
C2_Witness ==
    \E r \in Req :
        /\ req[r].pc = "saving"
        /\ \A q \in Req \ {r} : req[q].pc \in {"idle", "closed"}
        /\ Len(Stored(req[r].user)) = MaxHistory
        /\ Stored(req[r].user)[MaxHistory] = Message("user", Text(orch[r].user_message))
        /\ conversations[req[r].user].messages # orch[r].hist
        /\ Len(heap[orch[r].hist]) > MaxHistory

\* what the code does when a worker of another stream of the caller appends
\* between the statements of add_message: the first request's add_message of
\* its user message has returned, and the stored history ends with the second
\* request's user message
C2_OtherAppendInside ==
    /\ req[1].pc = "saving"
    /\ req[2].pc = "running"
    /\ req[1].user = req[2].user
    /\ orch[2].pc = "added"
    /\ Len(Stored(req[1].user)) = MaxHistory
    /\ Stored(req[1].user)[MaxHistory] = Message("user", Text(orch[2].user_message))
    /\ Stored(req[1].user)[MaxHistory - 1] = Message("user", Text(orch[1].user_message))
    /\ conversations[req[1].user].messages # orch[2].hist
    /\ Len(heap[orch[2].hist]) = MaxHistory + 3

\* C3: a get_history that meets a session last stamped more than 30 minutes ago
\* returns an empty history, and the handler goes on as with any history.
C3_StaleReadsEmpty ==
    \A r \in Req :
        (req[r].found = "stale" /\ orch[r].pc \in {"built", "ready"})
            => /\ heap[orch[r].hist] = <<>>
               /\ req[r].pc \in {"running", "started"}
               /\ req[r].status = 0
               /\ req[r].frames \in {<<>>, <<Frame("start")>>}

\* C3 witness: a handler has just loaded the history of a stale session
C3_Witness ==
    \E r \in Req :
        /\ req[r].found = "stale"
        /\ orch[r].pc \in {"built", "ready"}
        /\ heap[orch[r].hist] = <<>>
        /\ clock > timeout_minutes

\* ---------------------------------------------------------------- claims: the agent loop
\* lexicographic order on tuples of naturals of one length
LexLess(x, y) ==
    \E i \in DOMAIN x : x[i] < y[i] /\ \A j \in 1..(i - 1) : x[j] = y[j]

\* How far a chat() of the orchestrator is from its end: the stage before the
\* loop, the iterations left, request still to make, ToolCalls of the turn
\* left, delegation still to enter, and the same for the specialized agent
\* while a delegation runs.
Rank ==
    LET o == orch[1]
        s == sub[1].run
        inLoop == o.pc \in {"await", "exec", "deleg"}
        subRuns == o.pc = "deleg" /\ s.pc \in {"await", "exec"}
    IN << CASE o.pc = "ready" -> 3 [] o.pc = "added" -> 2 [] inLoop -> 1 [] OTHER -> 0,
          IF inLoop THEN o.max_iterations - o.iteration ELSE 0,
          IF o.pc = "await" THEN 1 ELSE 0,
          IF inLoop THEN Len(o.pending) ELSE 0,
          IF o.pc = "exec" THEN 1 ELSE 0,
          IF subRuns THEN DefaultMaxIterations - s.iteration ELSE 0,
          IF subRuns /\ s.pc = "await" THEN 1 ELSE 0,
          IF subRuns THEN Len(s.pending) ELSE 0 >>

\* C4: every chat() ends after at most maxIterations requests to the completion
\* service (the orchestrator: its argument; a specialized agent: the default
\* of 5): the request counters never pass the bound, every step of a chat()
\* brings it strictly nearer to its end, and a chat() that has not ended has a
\* next step whenever the call it waits for returns.
C4_EndsWithinMaxIterations ==
    /\ [](Terminal(orch[1]) \/ ENABLED NextAgent)
    /\ [][/\ orch'[1].calls <= orch'[1].max_iterations
          /\ sub'[1].run.calls <= DefaultMaxIterations
          /\ \A i \in DOMAIN Rank : Rank[i] >= 0
          /\ LexLess(Rank', Rank)]_vars

\* C4 witness: a chat() that used up all its requests, with the default bound
C4_Witness ==
    /\ orch[1].pc = "exhausted"
    /\ orch[1].max_iterations = DefaultMaxIterations
    /\ orch[1].calls = DefaultMaxIterations

\* C5: the "iterations" of the result of OrchestratorAgent.chat is at most the
\* max_iterations of the invocation, on the final-text exit and on the
\* exhausted exit.
C5_IterationsWithinBound ==
    orch[1].pc \in {"done", "exhausted"} =>
        /\ orch[1].result.kind = orch[1].pc
        /\ orch[1].result.iterations <= orch[1].max_iterations

\* C5 witness: the final text came on the last turn allowed
C5_Witness ==
    /\ orch[1].pc = "done"
    /\ orch[1].max_iterations = DefaultMaxIterations
    /\ orch[1].result.iterations = DefaultMaxIterations

\* the turns of a message list on which the completion service asked for ToolCalls
ToolTurns(msgs) ==
    Cardinality({i \in DOMAIN msgs : msgs[i].role = "assistant" /\ msgs[i].tool_calls # <<>>})

\* C6: when the completion service asked for tool calls on every one of the
\* max_iterations turns, chat() has not raised and returns the fallback text,
\* the orchestrator with iterations = max_iterations.
C6_AllToolTurnsGiveFallback ==
    /\ (/\ orch[1].pc \notin {"ready", "added"}
        /\ ToolTurns(orch[1].messages) = orch[1].max_iterations
        /\ orch[1].pc # "raised"
        /\ orch[1].pending = <<>>)
          => /\ orch[1].pc = "exhausted"
             /\ orch[1].result.response = FallbackText
             /\ orch[1].result.iterations = orch[1].max_iterations
    /\ (/\ orch[1].pc \notin {"ready", "added"}
        /\ ToolTurns(orch[1].messages) = orch[1].max_iterations)
          => orch[1].pc # "raised"

\* C7: executing a ToolCall whose name is no capability of the agent never
\* raises.
C7_UnknownNeverRaises ==
    /\ (orch[1].pc = "raised" /\ orch[1].pending # <<>>)
          => DelegateOf(Head(orch[1].pending).name) # ""
    /\ (sub[1].run.pc = "raised" /\ sub[1].run.pending # <<>>)
          => Head(sub[1].run.pending).name \in Registered(sub[1].run.active)

\* C8: chat() raises only when the call to the completion service fails, never
\* while a ToolCall of the turn is being executed.
C8_RaisesOnlyFromCompletion ==
    orch[1].pc = "raised" => orch[1].pending = <<>>

\* the tool messages that directly follow position i of a message list
Answered(msgs, i) ==
    CHOOSE m \in 0..(Len(msgs) - i) :
        /\ \A j \in 1..m : msgs[i + j].role = "tool"
        /\ (i + m = Len(msgs) \/ msgs[i + m + 1].role # "tool")

\* the payload is the result of executing the ToolCall
ResultOf(call, payload) ==
    CASE payload.k = "agent" -> payload.s = DelegateOf(call.name) /\ payload.s # ""
      [] payload.k \in {"error", "data"} -> payload.s = call.name
      [] OTHER -> FALSE

\* After every assistant message with a ToolCall list, the results so far are
\* the tool messages right behind it, one per call, in the list's order; the
\* calls left (the first of them the one in execution) are the rest of the list
\* in the turn under way, and none in a turn that is over.
InListedOrder(msgs, pending) ==
    \A i \in DOMAIN msgs :
        msgs[i].tool_calls # <<>> =>
            LET calls == msgs[i].tool_calls
                m == Answered(msgs, i)
            IN /\ msgs[i].role = "assistant"
               /\ m <= Len(calls)
               /\ \A j \in 1..m :
                     /\ msgs[i + j].tool_call_id = calls[j].id
                     /\ ResultOf(calls[j], msgs[i + j].content)
               /\ IF i + m = Len(msgs)
                  THEN pending = SubSeq(calls, m + 1, Len(calls))
                  ELSE m = Len(calls)

\* C9: the ToolCalls of a turn are executed one at a time in the listed order
\* and their results are appended as separate tool messages in that order,
\* behind the assistant message that carries the list; in the orchestrator and
\* in a specialized agent.
C9_ResultsInListedOrder ==
    /\ InListedOrder(orch[1].messages, orch[1].pending)
    /\ InListedOrder(sub[1].run.messages, sub[1].run.pending)

\* C9 witness: a turn of two ToolCalls, both answered
C9_Witness ==
    \E i \in DOMAIN orch[1].messages :
        /\ Len(orch[1].messages[i].tool_calls) = 2
        /\ i + 2 = Len(orch[1].messages)
        /\ orch[1].messages[i + 1].role = "tool"
        /\ orch[1].messages[i + 2].role = "tool"
        /\ orch[1].messages[i + 1].tool_call_id # orch[1].messages[i + 2].tool_call_id
        /\ orch[1].pc = "await"

\* the position of the nearest assistant message before position j (0: none)
NearestAssistant(msgs, j) ==
    LET before == {i \in 1..(j - 1) : msgs[i].role = "assistant"}
    IN IF before = {} THEN 0 ELSE CHOOSE i \in before : \A k \in before : k <= i

\* the tool messages of a list that carry this call id
Answers(msgs, id) ==
    Cardinality({j \in DOMAIN msgs : msgs[j].role = "tool" /\ msgs[j].tool_call_id = id})

\* Each tool message answers a ToolCall of the nearest assistant message before
\* it, and no ToolCall has two tool messages.
Matched(msgs) ==
    /\ \A j \in DOMAIN msgs :
          msgs[j].role = "tool" =>
              LET i == NearestAssistant(msgs, j)
              IN /\ i # 0
                 /\ \E k \in DOMAIN msgs[i].tool_calls :
                        msgs[i].tool_calls[k].id = msgs[j].tool_call_id
    /\ \A i \in DOMAIN msgs :
          \A k \in DOMAIN msgs[i].tool_calls : Answers(msgs, msgs[i].tool_calls[k].id) <= 1

\* ... and every ToolCall of the list has its tool message
WellMatched(msgs) ==
    /\ Matched(msgs)
    /\ \A i \in DOMAIN msgs :
          \A k \in DOMAIN msgs[i].tool_calls : Answers(msgs, msgs[i].tool_calls[k].id) = 1

\* the times the specialized agent was run for the delegation with this call id
Consulted(agent, id) ==
    Cardinality({k \in DOMAIN sub[1].hist[agent] :
                    sub[1].hist[agent][k] = Message("user", Text(QueryText(id)))})

\* C10: in every message list sent to the completion service (the list of an
\* agent about to make its request), each tool message's id is the id of a
\* ToolCall of the nearest assistant message before it, and every ToolCall has
\* exactly one tool message and was executed exactly once (a delegation: the
\* specialized agent was run once for it).
C10_ToolMessagesMatchCalls ==
    /\ Matched(orch[1].messages)
    /\ Matched(sub[1].run.messages)
    /\ \A a \in SubAgents : \A id \in 1..env.issued : Consulted(a, id) <= 1
    /\ orch[1].pc = "await" =>
          /\ WellMatched(orch[1].messages)
          /\ \A i \in DOMAIN orch[1].messages :
                \A k \in DOMAIN orch[1].messages[i].tool_calls :
                    LET tc == orch[1].messages[i].tool_calls[k]
                    IN DelegateOf(tc.name) # "" => Consulted(DelegateOf(tc.name), tc.id) = 1
    /\ (orch[1].pc = "deleg" /\ sub[1].run.pc = "await") =>
          WellMatched(sub[1].run.messages)

\* C10 witness: a specialized agent about to send a list that holds a turn of
\* two answered ToolCalls, inside a delegation of the orchestrator
C10_Witness ==
    /\ orch[1].pc = "deleg"
    /\ sub[1].run.pc = "await"
    /\ \E i \in DOMAIN sub[1].run.messages :
          /\ Len(sub[1].run.messages[i].tool_calls) = 2
          /\ Answered(sub[1].run.messages, i) = 2

\* ---------------------------------------------------------------- claims: consultations
\* a tool message that carries the {agent, response} of a delegation
IsAgentResult(m) == m.role = "tool" /\ m.content.k = "agent"

\* the delegations the orchestrator has performed and got the answer of
Delegations(msgs) == SelectSeq(msgs, IsAgentResult)

\* the times a specialized agent's chat() was entered
Runs(agent) ==
    Cardinality({k \in DOMAIN sub[1].hist[agent] : sub[1].hist[agent][k].role = "user"})

\* C11: in every result, agents_consulted holds each consulted agent once (no
\* duplicates) and no other name, while the timeline has one entry per
\* delegation performed, in their order; a ToolCall that resolves to an unknown
\* function adds to neither.
C11_ConsultedOnceTimelineEach ==
    orch[1].pc \in {"done", "exhausted"} =>
        LET d == Delegations(orch[1].messages)
            res == orch[1].result
        IN /\ Len(res.agent_timeline) = Len(d)
           /\ \A k \in DOMAIN d : res.agent_timeline[k].agent = d[k].content.s
           /\ Len(d) = Runs("SQL Analyst") + Runs("Financial Advisor")
           /\ \A a \in SubAgents :
                 res.agents_consulted[a] =
                    IF \E k \in DOMAIN d : d[k].content.s = a THEN 1 ELSE 0

\* C11 witness: three delegations to one agent and a call of an unknown function
C11_Witness ==
    /\ orch[1].pc = "done"
    /\ Len(orch[1].result.agent_timeline) = 3
    /\ \A k \in 1..3 : orch[1].result.agent_timeline[k].agent = "SQL Analyst"
    /\ orch[1].result.agents_consulted["SQL Analyst"] = 1
    /\ orch[1].result.agents_consulted["Financial Advisor"] = 0
    /\ \E j \in DOMAIN orch[1].messages : orch[1].messages[j].content.k = "error"

\* the turns taken up to position j of a message list: the 1-based iteration
\* in which the message at j was appended
IterationAt(msgs, j) == ToolTurns(SubSeq(msgs, 1, j))

\* the positions of the delegation results in a message list, in order
DelegationPositions(msgs) ==
    LET P == {j \in DOMAIN msgs : IsAgentResult(msgs[j])}
    IN [k \in 1..Cardinality(P) |->
           CHOOSE j \in P : Cardinality({i \in P : i <= j}) = k]

\* the place, in the ToolCall list of its turn, of the call that the tool
\* message at position j answers
CallIndex(msgs, j) ==
    LET calls == msgs[NearestAssistant(msgs, j)].tool_calls
    IN CHOOSE c \in DOMAIN calls : calls[c].id = msgs[j].tool_call_id

\* C12: the k-th timeline entry carries the 1-based iteration of the
\* orchestrator in which the k-th delegation ran (the turn whose assistant
\* message lists its ToolCall), not k; delegations of one turn carry the same
\* number and stand in the order of that turn's ToolCall list.
C12_TimelineCarriesIteration ==
    LET msgs == orch[1].messages
        pos == DelegationPositions(msgs)
        tl == orch[1].agent_timeline
    IN /\ Len(tl) = Len(pos)
       /\ \A k \in DOMAIN tl :
             /\ tl[k].iteration = IterationAt(msgs, pos[k])
             /\ tl[k].agent = msgs[pos[k]].content.s
             /\ tl[k].status = "completed"
       /\ \A k \in DOMAIN tl : \A l \in DOMAIN tl :
             k < l =>
                /\ tl[k].iteration <= tl[l].iteration
                /\ tl[k].iteration = tl[l].iteration =>
                      CallIndex(msgs, pos[k]) < CallIndex(msgs, pos[l])
       /\ orch[1].pc \in {"done", "exhausted"} => orch[1].result.agent_timeline = tl

\* C12 witness: two delegations in the second turn, to different agents, after
\* a first turn that delegated nothing
C12_Witness ==
    /\ orch[1].pc = "done"
    /\ Len(orch[1].result.agent_timeline) = 2
    /\ orch[1].result.agent_timeline[1] =
          [agent |-> "Financial Advisor", iteration |-> 2, status |-> "completed"]
    /\ orch[1].result.agent_timeline[2] =
          [agent |-> "SQL Analyst", iteration |-> 2, status |-> "completed"]

\* C13: a specialized agent that has used its 5 turns on tool calls returns the
\* fallback string; the orchestrator takes it as the {agent, response} of the
\* delegation, records the agent in agents_consulted and in the timeline with
\* status "completed", and goes on with its own loop: the next ToolCall of the
\* turn, the next turn, or its own exhaustion, never an exception.
C13_SubExhaustionIsCompleted ==
    /\ []((/\ sub[1].run.calls = DefaultMaxIterations
           /\ ToolTurns(sub[1].run.messages) = DefaultMaxIterations
           /\ sub[1].run.pending = <<>>)
             => /\ sub[1].run.pc = "exhausted"
                /\ sub[1].run.response = FallbackText)
    /\ [][(/\ orch[1].pc = "deleg"
           /\ sub[1].run.pc = "exhausted"
           /\ orch'[1] # orch[1])
             => LET o == orch[1]
                    tc == Head(o.pending)
                    agent == sub[1].run.active
                IN /\ agent = DelegateOf(tc.name)
                   /\ orch'[1].messages =
                         Append(o.messages, ToolMessage(tc.id, AgentPayload(agent, FallbackText)))
                   /\ orch'[1].agents_consulted = Append(o.agents_consulted, agent)
                   /\ orch'[1].agent_timeline =
                         Append(o.agent_timeline,
                                [agent |-> agent, iteration |-> o.iteration + 1,
                                 status |-> "completed"])
                   /\ orch'[1].pc =
                         IF Tail(o.pending) # <<>> THEN "exec"
                         ELSE IF o.iteration + 1 < o.max_iterations THEN "await"
                         ELSE "exhausted"
          ]_vars

\* C13 witness: the orchestrator about to make its next request with the
\* fallback string of an exhausted delegation as its last tool result
C13_Witness ==
    /\ orch[1].pc = "await"
    /\ orch[1].messages # <<>>
    /\ orch[1].messages[Len(orch[1].messages)].role = "tool"
    /\ orch[1].messages[Len(orch[1].messages)].content =
          AgentPayload("SQL Analyst", FallbackText)
    /\ orch[1].agent_timeline # <<>>
    /\ orch[1].agent_timeline[Len(orch[1].agent_timeline)].status = "completed"
    /\ orch[1].agents_consulted # <<>>

\* ---------------------------------------------------------------- claims: the loop's states
\* the state of the agent loop a position of chat() belongs to
LoopState(pc) ==
    CASE pc \in {"none", "idle", "ready", "added"} -> "Start"
      [] pc = "await" -> "AwaitingModel"
      [] pc \in {"exec", "deleg"} -> "ExecutingTools"
      [] pc = "done" -> "Done"
      [] pc = "exhausted" -> "Exhausted"
      [] pc = "raised" -> "Failed"

\* the transitions of the loop, with the exits by an exception
LoopStep(from, to) ==
    \/ from = to /\ from \in {"Start", "ExecutingTools"}
    \/ from = "Start" /\ to \in {"AwaitingModel", "Exhausted"}
    \/ from = "AwaitingModel" /\ to \in {"ExecutingTools", "Done", "Failed"}
    \/ from = "ExecutingTools" /\ to \in {"AwaitingModel", "Exhausted", "Failed"}

\* C14 as stated: chat() leaves the loop only in Done or Exhausted.
C14_OnlyDoneOrExhausted ==
    /\ LoopState(orch[1].pc) # "Failed"
    /\ LoopState(sub[1].run.pc) # "Failed"

\* C14, amended: the loop has only the transitions AwaitingModel ->
\* ExecutingTools -> AwaitingModel and ends in Done (the final text returned),
\* in Exhausted (the fallback returned), or by an exception that leaves chat():
\* from AwaitingModel when the completion-service call fails, from
\* ExecutingTools when the execution of a ToolCall fails. An ended chat() takes
\* no further step (a specialized agent's is put away by the orchestrator).
C14_LoopTransitions ==
    /\ [](/\ orch[1].pc = "done" =>
                orch[1].result.kind = "done" /\ orch[1].result.response = AnswerText(1)
          /\ orch[1].pc = "exhausted" =>
                orch[1].result.kind = "exhausted" /\ orch[1].result.response = FallbackText
          /\ (orch[1].pc = "raised" /\ orch[1].pending = <<>>) => orch[1].calls > 0
          /\ sub[1].run.pc = "exhausted" => sub[1].run.response = FallbackText)
    /\ [][/\ orch'[1].pc # orch[1].pc =>
                LoopStep(LoopState(orch[1].pc), LoopState(orch'[1].pc))
          /\ sub'[1].run.pc # sub[1].run.pc =>
                \/ LoopStep(LoopState(sub[1].run.pc), LoopState(sub'[1].run.pc))
                \/ /\ sub[1].run.pc \in {"done", "exhausted", "raised"}
                   /\ sub'[1].run = IdleSub
          /\ Terminal(orch[1]) => orch'[1] = orch[1]
         ]_vars

\* C14 witness: a chat() that left the loop from AwaitingModel by the failure
\* of its second request, after a turn of executed ToolCalls
C14_Witness ==
    /\ orch[1].pc = "raised"
    /\ orch[1].pending = <<>>
    /\ orch[1].calls = 2
    /\ ToolTurns(orch[1].messages) = 1

\* ---------------------------------------------------------------- claims: streaming
\* the frames of a type
FramesOfType(frames, types) ==
    Cardinality({i \in DOMAIN frames : frames[i].type \in types})

\* a frame that forwards a record of the event queue
IsActivity(f) == f.type \notin {"start", "response", "done", "error"}

\* C15: the frames of every streamed request begin with "start", emitted
\* before chat() is entered, and once the request is over they end with
\* exactly one terminal frame, "done" or "error", the last frame.
C15_StartFirstOneTerminalLast ==
    /\ (req[1].kind = "stream" /\ orch[1].pc \notin {"none", "built"}) =>
          req[1].frames # <<>> /\ req[1].frames[1] = Frame("start")
    /\ (req[1].kind = "stream" /\ req[1].pc = "closed") =>
          /\ req[1].frames # <<>>
          /\ req[1].frames[1] = Frame("start")
          /\ req[1].frames[Len(req[1].frames)].type \in {"done", "error"}
          /\ FramesOfType(req[1].frames, {"done", "error"}) = 1

\* C16: in a streamed request that returned, the caller has received one
\* agent-activity frame per completed delegation, between "start" and
\* "response".
C16_ActivityFramePerDelegation ==
    (/\ req[1].kind = "stream"
     /\ req[1].pc \in {"responded", "closed"}
     /\ orch[1].pc \in {"done", "exhausted"})
        => /\ Len(SelectSeq(req[1].frames, IsActivity)) = Len(orch[1].result.agent_timeline)
           /\ \A i \in DOMAIN req[1].frames :
                 IsActivity(req[1].frames[i]) =>
                    /\ 1 < i
                    /\ \E j \in (i + 1)..Len(req[1].frames) : req[1].frames[j].type = "response"

\* what the response frame carries of a result
Carried(res) == [response |-> res.response, agents_consulted |-> res.agents_consulted,
                 iterations |-> res.iterations]

\* C17: when the streamed chat() has returned, the records left in the event
\* queue are delivered first (none is lost, none comes later), then exactly one
\* "response" frame with the result's text, agents_consulted and iterations,
\* then "done".
C17_FlushResponseDone ==
    /\ [](\A r \in {1} :
            (req[r].kind = "stream"
                /\ req[r].pc \in {"user_added", "saving", "assistant_added", "responded", "closed"}
                /\ orch[r].pc \in {"done", "exhausted"})
               => LET f == req[r].frames
                      n == Len(f)
                      tail == IF req[r].pc \in {"user_added", "saving", "assistant_added"} THEN 0
                              ELSE IF req[r].pc = "responded" THEN 1 ELSE 2
                  IN /\ req[r].queue = <<>>
                     /\ n >= 1 + tail
                     /\ f[1] = Frame("start")
                     /\ \A i \in 2..(n - tail) : IsActivity(f[i])
                     /\ tail >= 1 =>
                           /\ f[n - tail + 1].type = "response"
                           /\ Carried(f[n - tail + 1].result) = Carried(orch[r].result)
                     /\ tail = 2 => f[n] = Frame("done"))
    /\ [][\A r \in {1} :
            (req[r].kind = "stream" /\ req[r].pc = "running" /\ req'[r].pc = "user_added")
               => req'[r].frames = req[r].frames \o req[r].queue
         ]_vars

\* C17 witness: a stream that ended with the response of a result reached in
\* the second turn, after one delegation, and then "done"
C17_Witness ==
    /\ req[1].kind = "stream"
    /\ req[1].pc = "closed"
    /\ Len(req[1].frames) = 3
    /\ req[1].frames[2].type = "response"
    /\ req[1].frames[2].result.iterations = 2
    /\ req[1].frames[2].result.agents_consulted["SQL Analyst"] = 1
    /\ req[1].frames[2].result.response = AnswerText(1)
    /\ req[1].frames[3] = Frame("done")

\* C18: when the streamed chat() raises, the caller receives an "error" frame,
\* the last of the stream, and neither a "response" nor a "done" frame.
C18_ErrorFrameOnly ==
    (req[1].kind = "stream" /\ orch[1].pc = "raised") =>
        /\ req[1].pc \in {"running", "closed"}
        /\ FramesOfType(req[1].frames, {"response", "done"}) = 0
        /\ req[1].pc = "running" => FramesOfType(req[1].frames, {"error"}) = 0
        /\ req[1].pc = "closed" =>
              /\ req[1].frames[Len(req[1].frames)] = Frame("error")
              /\ FramesOfType(req[1].frames, {"error"}) = 1

\* C18 witness: a stream closed by the error frame of a chat() that raised
\* while the first delegation was running
C18_Witness ==
    /\ req[1].kind = "stream"
    /\ req[1].pc = "closed"
    /\ orch[1].pc = "raised"
    /\ orch[1].pending # <<>>
    /\ req[1].frames = <<Frame("start"), Frame("error")>>

\* ---------------------------------------------------------------- claims: the synchronous path
\* C19: a failure of the completion-service call on POST /message is not
\* recovered: chat() has ended with it, the request ends with HTTP 500 and no
\* {response, agents_consulted, iterations} body.
C19_SyncFailureIs500 ==
    /\ [](\A r \in OneAtATime :
            (req[r].kind = "sync" /\ orch[r].pc = "raised") =>
                /\ req[r].pc \in {"running", "closed"}
                /\ req[r].body = NoResult
                /\ req[r].status = IF req[r].pc = "closed" THEN 500 ELSE 0)
    /\ [][\A r \in OneAtATime :
            (req[r].kind = "sync" /\ orch[r].pc = "raised" /\ req'[r].serial = req[r].serial)
                => /\ orch'[r].pc = "raised"
                   /\ orch'[r].calls = orch[r].calls
                   /\ req'[r] # req[r] => req'[r].pc = "closed" /\ req'[r].status = 500
         ]_vars

\* C19 witness: POST /message answered with 500 after the second request to
\* the completion service failed
C19_Witness ==
    \E r \in OneAtATime :
        /\ req[r].kind = "sync"
        /\ req[r].pc = "closed"
        /\ req[r].status = 500
        /\ orch[r].pc = "raised"
        /\ orch[r].calls = 2
        /\ req[r].body = NoResult

\* ---------------------------------------------------------------- claims: callers
\* what get_history would return for a caller now
History(u) ==
    IF Found(conversations, u, clock) = "live" THEN Stored(u) ELSE <<>>

\* C20: a step taken for another caller (a step of the other caller's request,
\* the other caller's clear) changes nothing of the history get_history
\* returns for a caller whose session is not stale, and gives no session to a
\* caller who has none. Slot b serves caller b: a step that leaves the slot
\* alone is either the clear of b itself, which touches no other caller, or a
\* step taken for someone else.
C20_CallersIndependent ==
    [][\A b \in Users :
          (/\ req'[b] = req[b]
           /\ orch'[b] = orch[b]
           /\ clock' = clock
           /\ Found(conversations, b, clock) # "stale")
             => \/ /\ conversations'[b] = conversations[b]
                   /\ History(b)' = History(b)
                   /\ Stored(b)' = Stored(b)
                \/ /\ HasSession(conversations, b)
                   /\ ~HasSession(conversations', b)
                   /\ req' = req
                   /\ orch' = orch
                   /\ \A a \in Users \ {b} :
                         conversations'[a] = conversations[a] /\ Stored(a)' = Stored(a)
      ]_vars

\* C20 witness: both callers have live sessions and requests in flight at
\* once; caller 1's exchange is being saved while caller 2's chat() runs
C20_Witness ==
    /\ req[1].pc = "saving"
    /\ req[1].user = 1
    /\ req[2].pc = "running"
    /\ req[2].user = 2
    /\ orch[2].pc = "await"
    /\ Found(conversations, 1, clock) = "live"
    /\ Found(conversations, 2, clock) = "live"
    /\ Len(Stored(1)) = MaxHistory
    /\ Len(Stored(2)) = MaxHistory

\* ---------------------------------------------------------------- C21
\* a capability of this agent has been dispatched and its result appended
Dispatched(agent, payload) ==
    /\ sub[1].run.active = agent
    /\ \E i \in DOMAIN sub[1].run.messages :
          /\ sub[1].run.messages[i].role = "tool"
          /\ sub[1].run.messages[i].content = payload

\* C21: no capability an agent can dispatch (the orchestrator's delegations,
\* the SQL Analyst's and the Financial Advisor's functions, the unknown-name
\* branch of each) creates, updates or deletes domain data: after any
\* sequence of tool calls the stored rows are the rows stored before.
C21_CapabilitiesReadOnly == domain = Rows

C21_Witness ==
    /\ domain = Rows
    /\ Dispatched("Financial Advisor",
                  DataPayload("get_financial_health_metrics"))
    /\ Dispatched("Financial Advisor", ErrorPayload("delete_expense"))
    /\ \E i \in DOMAIN orch[1].messages :
          /\ orch[1].messages[i].role = "tool"
          /\ orch[1].messages[i].content.k = "agent"
          /\ orch[1].messages[i].content.s = "SQL Analyst"

\* ---------------------------------------------------------------- C22
\* C22: after POST /clear for a caller, get_history returns the empty history
\* for that caller until a message is appended for them: the clear leaves no
\* session, and a caller without a session gets one only by an add_message of
\* a request of theirs, which stores that one message. The clear of a caller
\* who has no session changes nothing and is no error.
C22_ClearedUntilAppend ==
    [][\A u \in Users :
          /\ ~HasSession(ClearHistory(conversations, u), u)
          /\ ~HasSession(conversations, u) => ClearHistory(conversations, u) = conversations
          /\ (req' = req /\ orch' = orch /\ clock' = clock /\ ClearConversation(u)) =>
                /\ ~HasSession(conversations', u)
                /\ History(u)' = <<>>
                /\ LET g == GetHistory(conversations', heap', orch', u, clock')
                   IN g.h[g.list] = <<>>
                /\ ~HasSession(conversations, u) => conversations' = conversations
          /\ (~HasSession(conversations, u) /\ HasSession(conversations', u)) =>
                /\ Len(Stored(u))' = 1
                /\ \E r \in Req :
                      /\ req[r].user = u
                      /\ req[r].pc \in {"running", "saving"}
                      /\ req'[r].pc # req[r].pc
                      /\ orch[r].pc \in {"done", "exhausted"}
      ]_vars

\* C22 witness: the caller's session was cleared while a request of theirs that
\* had loaded it was in flight; the request has added its user message to the
\* list it loaded, and the caller has no session
C22_Witness ==
    /\ ~HasSession(conversations, 1)
    /\ History(1) = <<>>
    /\ req[1].user = 1
    /\ req[1].found = "live"
    /\ req[1].pc = "running"
    /\ orch[1].pc = "await"
    /\ Len(heap[orch[1].hist]) = MaxHistory

\* ---------------------------------------------------------------- C23
\* the request of this slot has completed without failure
Completed(r) ==
    /\ req[r].pc = "closed"
    /\ orch[r].pc \in {"done", "exhausted"}
    /\ \/ req[r].kind = "sync" /\ req[r].status = 200
       \/ req[r].kind = "stream" /\ req[r].frames[Len(req[r].frames)] = Frame("done")

\* the user message and the final (or fallback) text of the slot's request
Exchange(r) ==
    <<Message("user", Text(orch[r].user_message)),
      Message("assistant", Text(orch[r].result.response))>>

\* the histories the first request of a run can have met: the stored one it
\* loaded, or none (no session, a stale one, or one cleared while it ran)
BeforeFirst(r) ==
    IF req[r].found = "live" THEN {OldHistory(MaxHistory - 1), <<>>} ELSE {<<>>}

\* C23: after a chat request that completed without failure the caller's stored
\* history is the history stored before the request, then the request's user
\* message once, then its final (or fallback) text once, cut to the last 20.
\* Stated for the first request of a run, whose earlier history is known: it
\* is the first of its session when it met none, a later one when it loaded one.
C23_StoredIsBeforeThenExchange ==
    \A r \in OneAtATime :
        (/\ Completed(r)
         /\ req[r].serial = 1
         /\ HasSession(conversations, req[r].user))
            => \E before \in BeforeFirst(r) :
                  Stored(req[r].user) = LastN(before \o Exchange(r), MaxHistory)

\* the case where the code does as C23 says: the first request of a session
C23_FirstOfSession ==
    \E r \in OneAtATime :
        /\ Completed(r)
        /\ req[r].serial = 1
        /\ req[r].found = "none"
        /\ Stored(req[r].user) = Exchange(r)

\* ---------------------------------------------------------------- C24
\* C24: a delegation runs the specialized agent's own loop with its own budget
\* of 5 turns, whatever max_iterations the orchestrator was given and however
\* many of its iterations are used: the agent starts at its first turn, makes
\* at most 5 requests, is exhausted after exactly 5, and its turns leave the
\* orchestrator's iteration counter and request count alone; the return of
\* the delegation advances the orchestrator's counter by at most the one turn
\* the delegation is part of.
C24_DelegationHasOwnBudget ==
    [][/\ (orch[1].pc # "deleg" /\ orch'[1].pc = "deleg") =>
             /\ sub'[1].run.pc = "await"
             /\ sub'[1].run.iteration = 0
             /\ sub'[1].run.calls = 0
       /\ (orch[1].pc = "deleg" /\ orch'[1].pc = "deleg") =>
             /\ orch'[1].iteration = orch[1].iteration
             /\ orch'[1].calls = orch[1].calls
             /\ orch'[1].max_iterations = orch[1].max_iterations
             /\ sub'[1].run.iteration \in {sub[1].run.iteration, sub[1].run.iteration + 1}
       /\ sub'[1].run.calls <= DefaultMaxIterations
       /\ sub'[1].run.iteration < DefaultMaxIterations
       /\ (sub'[1].run.pc = "exhausted") => sub'[1].run.calls = DefaultMaxIterations
       /\ (orch[1].pc = "deleg" /\ orch'[1].pc \notin {"deleg", "raised"}) =>
             /\ orch'[1].calls = orch[1].calls
             /\ orch'[1].iteration =
                    IF Len(orch[1].pending) = 1 /\ orch'[1].pc = "await"
                    THEN orch[1].iteration + 1 ELSE orch[1].iteration
      ]_vars

\* C24 witness: an orchestrator bounded to one iteration whose delegation has
\* used all 5 turns of the specialized agent and ended on the fallback
C24_Witness ==
    /\ orch[1].pc = "deleg"
    /\ orch[1].max_iterations = 1
    /\ orch[1].calls = 1
    /\ sub[1].run.pc = "exhausted"
    /\ sub[1].run.calls = DefaultMaxIterations

\* the same in the orchestrator's second iteration: the delegation is in its
\* fifth turn, and the two loops together have made more requests than the
\* orchestrator's bound
C24_WitnessSecondIteration ==
    /\ orch[1].pc = "deleg"
    /\ orch[1].iteration = 1
    /\ orch[1].max_iterations = DefaultMaxIterations
    /\ sub[1].run.pc = "done"
    /\ sub[1].run.calls = DefaultMaxIterations
    /\ orch[1].calls + sub[1].run.calls > orch[1].max_iterations

\* ---------------------------------------------------------------- C25
\* C25: staleness is enforced on every access to the store: an add_message that
\* meets a session last stamped more than 30 minutes ago discards the stale
\* history, and the session then holds only the message just appended. The
\* first add_message of a request begins with the step from "running" into
\* "user_added", the append, and discards nothing afterwards.
C25_AppendDiscardsStale ==
    [][\A r \in OneAtATime :
          (/\ req[r].pc = "running"
           /\ req'[r].pc = "user_added"
           /\ Found(conversations, req[r].user, clock) = "stale")
             => Stored(req[r].user)' = <<Message("user", Text(orch[r].user_message))>>
      ]_vars

\* what the code does instead: the stale history is kept and stamped anew
C25_StaleKeptAndRestamped ==
    \E r \in OneAtATime :
        /\ req[r].pc = "saving"
        /\ req[r].found = "live"
        /\ clock > timeout_minutes
        /\ conversations[req[r].user].last_updated = clock
        /\ Len(Stored(req[r].user)) = MaxHistory
        /\ Stored(req[r].user)[1] = Message("user", Text(OldText))

\* ---------------------------------------------------------------- C26
\* C26: a chat request that fails (chat() raises) leaves the caller's store
\* entry exactly as it was before the request: neither its user message nor a
\* partial result is stored. Stated for the first request of a run, whose
\* earlier entry is known: the session it loaded is still the one stored
\* (unless cleared meanwhile), and a caller it found without a live session
\* has none afterwards.
C26_FailureLeavesStore ==
    \A r \in OneAtATime :
        (/\ req[r].pc = "closed"
         /\ orch[r].pc = "raised"
         /\ req[r].serial = 1)
            => IF req[r].found = "live" /\ HasSession(conversations, req[r].user)
               THEN /\ Stored(req[r].user) = OldHistory(MaxHistory - 1)
                    /\ conversations[req[r].user].last_updated = 0
               ELSE ~HasSession(conversations, req[r].user)

\* the case where the code does as C26 says: a failed first request of a session
C26_FailedFirstOfSession ==
    \E r \in OneAtATime :
        /\ req[r].pc = "closed"
        /\ orch[r].pc = "raised"
        /\ req[r].serial = 1
        /\ req[r].found = "none"
        /\ ~HasSession(conversations, req[r].user)

\* ---------------------------------------------------------------- C27
\* the streamed request of this slot is in flight: started, its turn not yet
\* appended by the bridge
InFlight(r) == req[r].kind = "stream" /\ req[r].pc \in {"started", "running"}

\* a message of the request of slot q: its user message or its answer
OfRequest(m, q) ==
    /\ m.content.k = "text"
    /\ m.content.n \in {QuestionText(req[q].serial), AnswerText(req[q].serial)}

\* the list slot r sends to the completion service has a message of slot q's request
SeesOther(r, q) ==
    /\ r # q
    /\ InFlight(r)
    /\ InFlight(q)
    /\ req[r].user = req[q].user
    /\ orch[r].pc = "await"
    /\ \E i \in DOMAIN orch[r].messages : OfRequest(orch[r].messages[i], q)

\* C27: while a streamed request is in flight, a step of its worker (a step of
\* its chat() that is no step of the handler) leaves every caller's store
\* entry as it is; and of two streamed requests in flight for one caller,
\* neither sends the completion service a list with the other's user message
\* or answer.
C27_WorkerLeavesStore ==
    [][/\ \A r \in Req :
             (InFlight(r) /\ orch'[r] # orch[r] /\ req' = req)
                => \A u \in Users :
                      conversations'[u] = conversations[u] /\ Stored(u)' = Stored(u)
       /\ \A r, q \in Req : ~SeesOther(r, q)'
      ]_vars

\* what the code does: the second request for a caller is about to send a
\* list that ends with the first request's user message and answer, then its own
C27_SecondSeesFirst ==
    /\ SeesOther(2, 1)
    /\ Len(orch[2].messages) > 3
    /\ orch[2].messages[Len(orch[2].messages) - 2].content = Text(QuestionText(req[1].serial))
    /\ orch[2].messages[Len(orch[2].messages) - 1].content = Text(AnswerText(req[1].serial))
    /\ orch[2].messages[Len(orch[2].messages)].content = Text(QuestionText(req[2].serial))

\* the case where the code does as C27 says: two requests in flight for a
\* caller without a session each have their own list
C27_FirstOfSessionApart ==
    /\ InFlight(1)
    /\ InFlight(2)
    /\ req[1].user = req[2].user
    /\ req[1].found = "none"
    /\ req[2].found = "none"
    /\ orch[1].pc = "done"
    /\ orch[2].pc = "await"
    /\ orch[1].hist # orch[2].hist
    /\ ~HasSession(conversations, req[1].user)

\* ---------------------------------------------------------------- C28
\* a message an agent keeps in its conversation history: a user or assistant
\* text, never a tool-call message and never a tool message
Plain(m) == m.role \in {"user", "assistant"} /\ m.tool_calls = <<>> /\ m.tool_call_id = 0

\* the conversation history of the orchestrator of slot 1
OrchHistory == heap[orch[1].hist]

\* C28: the conversation history of an agent grows over one chat() by exactly
\* the user message and the final assistant text when it ends Done, and by the
\* user message alone when it ends Exhausted (the fallback is not recorded);
\* tool-call messages and tool messages are never added to it, so a later
\* chat() of the agent, whose first request is the system message followed by
\* the history, does not send them again. Stated for the orchestrator, whose
\* history starts empty, by the stage of its chat(), and for a specialized
\* agent by the steps of its delegations.
C28_HistoryGrowsByTurn ==
    [][/\ orch'[1].pc = "ready" => OrchHistory' = <<>>
       /\ orch'[1].pc \in {"added", "await", "exec", "deleg", "exhausted", "raised"} =>
             OrchHistory' = <<Message("user", Text(orch'[1].user_message))>>
       /\ orch'[1].pc = "done" =>
             OrchHistory' = <<Message("user", Text(orch'[1].user_message)),
                             Message("assistant", Text(orch'[1].result.response))>>
       /\ IF orch[1].pc = "exec" /\ orch'[1].pc = "deleg"
          THEN LET a == sub'[1].run.active IN
               /\ sub'[1].hist[a] =
                     Append(sub[1].hist[a], Message("user", Text(QueryText(Head(orch[1].pending).id))))
               /\ \A b \in SubAgents \ {a} : sub'[1].hist[b] = sub[1].hist[b]
               /\ sub'[1].run.messages = <<Message("system", SystemContent(a))>> \o sub'[1].hist[a]
          ELSE IF sub[1].run.pc = "await" /\ sub'[1].run.pc = "done"
          THEN LET a == sub[1].run.active IN
               /\ sub'[1].hist[a] =
                     Append(sub[1].hist[a], Message("assistant", Text(sub'[1].run.response)))
               /\ \A b \in SubAgents \ {a} : sub'[1].hist[b] = sub[1].hist[b]
          ELSE sub'[1].hist = sub[1].hist
       /\ \A a \in SubAgents : \A i \in DOMAIN sub'[1].hist[a] : Plain(sub'[1].hist[a][i])
       /\ \A i \in DOMAIN OrchHistory' : Plain(OrchHistory'[i])
      ]_vars

\* C28 witness: the second delegation to the SQL Analyst starts after ToolCalls
\* were executed; the first one ended with a final text, and the request now
\* to be sent holds the system message, the first query and answer, and the
\* second query, with no tool-call or tool message among them
C28_Witness ==
    /\ orch[1].pc = "deleg"
    /\ sub[1].run.active = "SQL Analyst"
    /\ sub[1].run.pc = "await"
    /\ sub[1].run.calls = 0
    /\ Len(sub[1].hist["SQL Analyst"]) = 3
    /\ sub[1].run.messages =
          <<Message("system", SystemContent("SQL Analyst"))>> \o sub[1].hist["SQL Analyst"]
    /\ \E i \in DOMAIN orch[1].messages :
          /\ orch[1].messages[i].role = "tool"
          /\ orch[1].messages[i].content = AgentPayload("SQL Analyst", SubAnswerText(1))
    /\ env.issued >= 3

\* the exhausted end of a specialized agent that executed capabilities in
\* each of its 5 turns: the query alone is in its history
C28_WitnessExhausted ==
    /\ sub[1].run.pc = "exhausted"
    /\ Len(sub[1].run.messages) > 2 * DefaultMaxIterations
    /\ sub[1].hist[sub[1].run.active] = <<Message("user", Text(QueryText(1)))>>

\* ---------------------------------------------------------------- C29
\* the delegations to this agent that have returned, in their order
ReturnedOf(agent) ==
    LET ToAgent(m) == IsAgentResult(m) /\ m.content.s = agent
    IN SelectSeq(orch[1].messages, ToAgent)

\* what a returned delegation left in the agent's history: its query, and its
\* final answer (a delegation that ended on the fallback recorded none)
Left(m) ==
    <<Message("user", Text(QueryText(m.tool_call_id)))>>
        \o (IF m.content.n = FallbackText THEN <<>>
            ELSE <<Message("assistant", Text(m.content.n))>>)

RECURSIVE Transcript(_)
Transcript(d) == IF d = <<>> THEN <<>> ELSE Left(Head(d)) \o Transcript(Tail(d))

\* C29: within one invocation of the orchestrator a specialized agent keeps
\* its history across delegations: the request of its n-th delegation holds
\* the system message, the queries of the n-1 earlier delegations, each with
\* its final answer, and the n-th query; the history of the agent that is
\* not running is what its own delegations left, so a delegation to one agent
\* never changes the history of the other.
C29_AgentKeepsHistory ==
    /\ orch[1].pc = "deleg" =>
          LET a == sub[1].run.active
              earlier == Transcript(ReturnedOf(a))
              query == Message("user", Text(QueryText(Head(orch[1].pending).id)))
              request == <<Message("system", SystemContent(a))>> \o earlier \o <<query>>
          IN /\ Len(sub[1].run.messages) >= Len(request)
             /\ SubSeq(sub[1].run.messages, 1, Len(request)) = request
             /\ sub[1].hist[a] =
                   earlier \o <<query>> \o
                      (IF sub[1].run.pc = "done"
                       THEN <<Message("assistant", Text(sub[1].run.response))>> ELSE <<>>)
             /\ \A b \in SubAgents \ {a} : sub[1].hist[b] = Transcript(ReturnedOf(b))
    /\ orch[1].pc \notin {"deleg", "raised"} =>
          \A b \in SubAgents : sub[1].hist[b] = Transcript(ReturnedOf(b))

\* C29 witness: the third delegation to the SQL Analyst is about to send its
\* first request, after a delegation to the Financial Advisor
C29_Witness ==
    /\ orch[1].pc = "deleg"
    /\ sub[1].run.active = "SQL Analyst"
    /\ sub[1].run.pc = "await"
    /\ sub[1].run.calls = 0
    /\ Len(ReturnedOf("SQL Analyst")) = 2
    /\ Len(ReturnedOf("Financial Advisor")) = 1
    /\ Len(sub[1].run.messages) = 6
    /\ Len(sub[1].hist["Financial Advisor"]) = 2

\* ---------------------------------------------------------------- C30
\* C30: in every OrchestrationResult the iteration numbers of the timeline are
\* non-decreasing, each is between 1 and the reported "iterations", and the
\* agents named in the timeline are exactly those of agents_consulted; on
\* Done "iterations" is the number of requests made to the completion service.
C30_ResultIsConsistent ==
    orch[1].pc \in {"done", "exhausted"} =>
        LET res == orch[1].result
            tl == res.agent_timeline
        IN /\ \A k \in DOMAIN tl : \A l \in DOMAIN tl :
                 k <= l => tl[k].iteration <= tl[l].iteration
           /\ \A k \in DOMAIN tl : 1 <= tl[k].iteration /\ tl[k].iteration <= res.iterations
           /\ {a \in SubAgents : res.agents_consulted[a] > 0} = {tl[k].agent : k \in DOMAIN tl}
           /\ \A a \in SubAgents : res.agents_consulted[a] <= 1
           /\ orch[1].pc = "done" => res.iterations = orch[1].calls

\* C30 witness: a result on the third request, after one delegation in the
\* first turn and two in the second, to both agents
C30_Witness ==
    /\ orch[1].pc = "done"
    /\ orch[1].calls = 3
    /\ orch[1].result.iterations = 3
    /\ Len(orch[1].result.agent_timeline) = 3
    /\ orch[1].result.agent_timeline[1].iteration = 1
    /\ orch[1].result.agent_timeline[2].iteration = 2
    /\ orch[1].result.agent_timeline[3].iteration = 2
    /\ orch[1].result.agents_consulted = [a \in SubAgents |-> 1]

\* the same on the exhausted exit: the delegations of the last turn allowed
C30_WitnessExhausted ==
    /\ orch[1].pc = "exhausted"
    /\ orch[1].result.iterations = DefaultMaxIterations
    /\ orch[1].result.agent_timeline # <<>>
    /\ orch[1].result.agent_timeline[Len(orch[1].result.agent_timeline)].iteration
          = DefaultMaxIterations

====
